---- MODULE Spec2Model ----
(***************************************************************************)
(* The POST /api/create-zip handlers of shortcraft-zip as one state        *)
(* machine.  The repository holds several near-duplicate variants of the   *)
(* handler; `variant` selects the one a behaviour runs:                    *)
(*   "disk"  build-to-disk           src/server.js 48-145 (= part_000)    *)
(*   "temp"  temp-file + streamed    src/server.js 366-483                 *)
(*   "par"   parallel streaming      src/unnamed/part_002 39-135           *)
(*   "pass"  PassThrough streaming   src/unnamed/part_001 32-84            *)
(*   "web"   Readable.fromWeb        src/unnamed/part_002 174-230          *)
(*   "job"   asynchronous job        src/server.js 196-293                 *)
(* JavaScript runs the handler, the limiter's tasks and the event          *)
(* callbacks on one thread: promise continuations (microtasks) run to      *)
(* exhaustion before the next I/O, timer or 'close' callback (macrotask).  *)
(***************************************************************************)
EXTENDS Integers, Sequences, FiniteSets, TLC

VARIABLES
  variant,        \* which handler variant serves the request
  files,          \* req.body.files: sequence of [zip_path |-> name]
  reqFiles,       \* req.body.files (videos) as received: [kind, list]
  jobs,           \* asynchronous job variant: the status jobs holds for the job
  allowPartial,   \* options?.allowPartial !== false
  optParallel,    \* options?.parallel as sent (0 = absent)
  tpc,            \* position of each entry's limiter task
  attempt,        \* the retry loop's `attempt` of each running task (0 = no loop running)
  outcome,        \* how each entry's last attempt ended, once its task has settled
  tempFiles,      \* tempFiles: the tracked temp paths, by entry index
  disk,           \* entry indexes whose temp file exists under /tmp
  failed,         \* failed: sequence of [zip_path, reason]
  entries,        \* (name, source) pairs the archive accepted, in call order
  archState,      \* archiver state: open, finalizing, finalized, aborted
  drained,        \* how many accepted entries the archiver has written out
  finalizeCalls,  \* number of archive.finalize() calls
  isAborted,      \* the temp variant's isAborted flag
  res,            \* the HTTP response
  clientAborted,  \* the client closed the connection before the response ended
  closeHook,      \* disk variant: res.on("close") unlink hook registered
  zipOnDisk,      \* disk variant: the staged /tmp/<uuid>.zip exists
  rejection,      \* reason Promise.all / the awaited task rejected with
  hpc,            \* position of the handler
  loopI,          \* par/pass: the for-loop's next index
  cleanIdx,       \* finally block: next tracked path to unlink
  cleanLimit,     \* temp variant: length of tempFiles when finally mapped it
  timers          \* ms of the pending setTimeout of each entry's task (0 = none)

vars == << variant, files, reqFiles, jobs, allowPartial, optParallel, tpc, attempt, outcome,
           tempFiles, disk, failed, entries, archState, drained, finalizeCalls,
           isAborted, res, clientAborted, closeHook, zipOnDisk, rejection, hpc,
           loopI, cleanIdx, cleanLimit, timers >>

----------------------------------------------------------------------------
\* Bounds of the model

MaxFiles == 2

\* longest requested name of the name-computation specification
MaxNameLen == 3

----------------------------------------------------------------------------
\* Inputs

Variants == {"disk", "temp", "par", "pass", "web"}

\* Requested names, as sequences of characters.  <<>> is an absent (or empty,
\* equally falsy) zip_path.
NameChoices ==
  { <<>>, <<" ">>, <<".", ".", "/", "a", "\t", " ", "b">> }

\* req.body.files: 1..MaxFiles entries.  The first entry takes each of the
\* requested names; the entries after it leave zip_path out.
FileLists ==
  UNION { { [i \in 1..n |-> [zip_path |-> IF i = 1 THEN nm ELSE <<>>]] :
              nm \in NameChoices } : n \in 1..MaxFiles }

\* Characters of the requested names of the name-computation specification:
\* an ordinary character, both path separators and two kinds of whitespace.
NameAlphabet == {".", "/", "\\", " ", "\t"}

\* every string over NameAlphabet of at most MaxNameLen characters
NameStrings == UNION { [1..n -> NameAlphabet] : n \in 0..MaxNameLen }

\* one entry with any of these names, or two entries of which the second
\* repeats the first one's name or asks for "_"
NameLists ==
  { <<[zip_path |-> nm]>> : nm \in NameStrings }
    \cup UNION { { <<[zip_path |-> nm], [zip_path |-> nm2]>> : nm2 \in {nm, <<"_">>} } :
                  nm \in NameStrings }

ParallelOptions == {-2, 0, 1, 3, 9}

N == Len(files)
Idx == 1..N

----------------------------------------------------------------------------
\* Name Sanitizer

Hostile == {"\\", "/", ":", "*", "?", "\"", "<", ">", "|"}
White == {" ", "\t"}

\* a character class that misses the backslash
ReplaceHostileButBackslash(s) ==
  [k \in 1..Len(s) |-> IF s[k] \in Hostile \ {"\\"} THEN "_" ELSE s[k]]

ReplaceHostile(s) == [k \in 1..Len(s) |-> IF s[k] \in Hostile THEN "_" ELSE s[k]]

\* a replace without the g flag: only the first run of whitespace is replaced
CollapseFirst(s, sep) ==
  IF \A k \in 1..Len(s) : s[k] \notin White THEN s
  ELSE LET a == CHOOSE k \in 1..Len(s) :
                  s[k] \in White /\ \A j \in 1..(k - 1) : s[j] \notin White
           b == CHOOSE k \in a..Len(s) :
                  /\ \A j \in a..k : s[j] \in White
                  /\ (k = Len(s) \/ s[k + 1] \notin White)
       IN SubSeq(s, 1, a - 1) \o <<sep>> \o SubSeq(s, b + 1, Len(s))

RECURSIVE CollapseWhite(_, _)
CollapseWhite(s, sep) ==
  IF s = <<>> THEN <<>>
  ELSE IF Head(s) \in White
       THEN IF Len(s) > 1 /\ s[2] \in White
            THEN CollapseWhite(Tail(s), sep)
            ELSE <<sep>> \o CollapseWhite(Tail(s), sep)
       ELSE <<Head(s)>> \o CollapseWhite(Tail(s), sep)

RECURSIVE TrimStart(_)
TrimStart(s) ==
  IF s # <<>> /\ Head(s) \in White THEN TrimStart(Tail(s)) ELSE s

RECURSIVE TrimEnd(_)
TrimEnd(s) ==
  IF s # <<>> /\ s[Len(s)] \in White THEN TrimEnd(SubSeq(s, 1, Len(s) - 1)) ELSE s

Trim(s) == TrimEnd(TrimStart(s))

\* name.replace(/[\\/:*?"<>|]/g, "_").replace(/\s+/g, " ").trim()
sanitize(name) == Trim(CollapseWhite(ReplaceHostile(name), " "))

\* name.replace(/[\\/:*?"<>|]/g, "_").replace(/\s+/g, "_")
sanitizeUnderscore(name) == CollapseWhite(ReplaceHostile(name), "_")

Digits == <<"1", "2", "3", "4", "5", "6", "7", "8", "9">>

\* `video_${idx + 1}.bin` and `file_${i + 1}` (idx + 1 is the 1-based index i)
DefaultVideo(i) == <<"video_", Digits[i], ".bin">>
DefaultFile(i) == <<"file_", Digits[i]>>

\* path.basename(video.storagePath): the videos are stored under paths that
\* differ per entry
StorageBase(i) == <<"stored_", Digits[i], ".mp4">>

\* f.zip_path || fallback
OrElse(zip_path, fallback) == IF zip_path = <<>> THEN fallback ELSE zip_path

\* The archive entry name each variant computes for entry i
EntryName(i) ==
  CASE variant \in {"disk", "temp"} ->
         sanitize(OrElse(files[i].zip_path, DefaultVideo(i)))
    [] variant = "par" ->
         OrElse(sanitize(OrElse(files[i].zip_path, DefaultVideo(i))), DefaultVideo(i))
    [] variant \in {"pass", "web"} ->
         sanitizeUnderscore(OrElse(files[i].zip_path, DefaultFile(i)))
    [] variant = "job" ->
         OrElse(files[i].zip_path, StorageBase(i))

ErrorTxt(name) == name \o <<".error.txt">>

----------------------------------------------------------------------------
\* Failure reasons (e.message)

\* downloadToTemp / fetchWithTimeout / fetch can throw before a usable
\* response exists: a non-ok status, or a network error / the timer's abort.
\* (pass words the first as `fetch_failed_${name}`; it keeps no failure list,
\* so only the kind of failure is recorded for it.)
FetchFailures == {"fetch_failed_500", "aborted"}
\* pipeline(res.body, fileStream) and the body stream can fail after that.
BodyFailures == {"aborted"}
\* response.body of undici's fetch is a WHATWG ReadableStream: it has neither
\* .pipe() nor .on(), so calling them throws a TypeError.
NotNodeStream == "body_is_not_a_node_stream"

----------------------------------------------------------------------------
\* The HTTP response

HeadersSent(r) == r.bytes \/ r.ended

\* res.status(st).end() / res.end(): no effect on a finished or torn-down response
ResEnd(r, st) ==
  IF r.ended \/ r.destroyed \/ r.closed THEN r
  ELSE [r EXCEPT !.ended = TRUE, !.status = IF HeadersSent(r) THEN r.status ELSE st]

\* res.destroy(err): the 'close' event follows in a later macrotask
ResDestroy(r) ==
  IF r.destroyed \/ r.closed THEN r ELSE [r EXCEPT !.destroyed = TRUE]

\* bytes the archive pipes into the response
ResWrite(r) ==
  IF r.ended \/ r.destroyed \/ r.closed THEN r ELSE [r EXCEPT !.bytes = TRUE]

\* archive.on("error", ...) of each variant
OnArchiveError(r) ==
  CASE variant = "temp" -> IF ~HeadersSent(r) THEN ResEnd(r, 500) ELSE ResDestroy(r)
    [] variant = "par"  -> ResEnd(r, 500)
    [] variant \in {"pass", "web"} -> ResDestroy(r)
    [] variant = "disk" -> r

----------------------------------------------------------------------------
\* The archive writer (archiver): file()/append() are accepted while the
\* archive is open and raise 'error' (QUEUECLOSED) once finalize() or abort()
\* was called; abort() is a no-op on an aborted or finalized archive.

Accepts == archState = "open"

Registered(rec) == IF Accepts THEN Append(entries, rec) ELSE entries

ResAfterRegister == IF Accepts THEN res ELSE OnArchiveError(res)

Abort(a) == IF a \in {"aborted", "finalized"} THEN a ELSE "aborted"

RealEntry(i) == [name |-> EntryName(i), kind |-> "real", idx |-> i]
Placeholder(i) == [name |-> ErrorTxt(EntryName(i)), kind |-> "placeholder", idx |-> i]

----------------------------------------------------------------------------
\* The limiter (p-limit) and the event loop

\* Math.max(1, Math.min(options?.parallel || 4, 6))
Min(a, b) == IF a < b THEN a ELSE b
Max(a, b) == IF a > b THEN a ELSE b

\* the option taken as it comes, with only the default applied
parallelUnclamped == IF optParallel = 0 THEN 4 ELSE optParallel

parallel == Max(1, Min(IF optParallel = 0 THEN 4 ELSE optParallel, 6))

\* a limiter that lets two tasks run at once
ConcurrencyTwo == IF variant = "par" THEN parallel ELSE 2

\* pLimit(1) in disk, temp and pass; pLimit(parallel) in par
Concurrency == IF variant = "par" THEN parallel ELSE 1

Running == {i \in Idx : tpc[i] \in {"fetch", "pipe", "body", "backoff"}}

Queued == {i \in Idx : tpc[i] = "queued"}

\* p-limit's queue is first-in first-out, and tasks are queued in index order
QueueHead == CHOOSE i \in Queued : \A j \in Queued : i <= j

\* a limiter that starts a queued task whatever is running
DispatchAlways == Queued # {}

\* p-limit starts the next queued task in a microtask
DispatchEnabled == Queued # {} /\ Cardinality(Running) < Concurrency

AllFulfilled == \A i \in Idx : tpc[i] = "fulfilled"

\* the loop hands every entry to the limiter without awaiting the last one
LoopNoAwait(i) == TRUE

\* `await limit(...)` inside the for loop: the loop goes on to entry i only
\* when the task of entry i - 1 has fulfilled
LoopMayAdvance(i) == IF i = 1 THEN TRUE ELSE tpc[i - 1] = "fulfilled"

\* for (const p of tempFiles) iterates the live array in disk; temp maps the
\* array as it is when the finally block starts
CleanBound == IF variant = "disk" THEN Len(tempFiles) ELSE cleanLimit

\* the handler's continuation is runnable (a microtask); the handler's
\* synchronous start runs as soon as the request has arrived
HandlerReady ==
  \/ hpc = "request"
  \/ /\ hpc = "tasks"
     /\ variant \in {"disk", "temp"}
     /\ (rejection # "none" \/ AllFulfilled)
  \/ /\ hpc = "tasks"
     /\ variant \in {"par", "pass", "web"}
     /\ \/ rejection # "none"
        \/ loopI <= N /\ LoopMayAdvance(loopI)
        \/ loopI > N /\ AllFulfilled
  \/ hpc = "cleanup" /\ cleanIdx > CleanBound

\* no microtask is pending: the event loop may run an I/O, timer or 'close'
\* callback
Idle == ~DispatchEnabled /\ ~HandlerReady

----------------------------------------------------------------------------
\* The state once the handler has validated the request, created the
\* archive, piped it to its sink and queued the limiter tasks.

maxRetry == 3

\* downloadToTemp(url, destPath, ms = 300_000)
downloadTimeoutMs == 300000

\* fetchWithTimeout(url, ms = 60_000)
fetchTimeoutMs == 60000

\* the first backoff delay of disk and temp, and job's fixed delay
baseDelayMs == 2000
jobDelayMs == 500

\* Math.pow(2, n)
RECURSIVE Pow2(_)
Pow2(n) == IF n = 0 THEN 1 ELSE 2 * Pow2(n - 1)

\* a backoff that waits the base delay after every failed attempt
waitMsFlat(a) == baseDelayMs

\* the delay given to setTimeout after failed attempt a:
\* 2000 * Math.pow(2, attempt - 1) in temp, 2000 * attempt in disk
waitMs(a) ==
  IF variant = "temp" THEN baseDelayMs * Pow2(a - 1) ELSE baseDelayMs * a

\* setTimeout(() => controller.abort(), ms) of an attempt; pass and web call
\* fetch without a timer
AttemptTimer ==
  CASE variant \in {"disk", "temp"} -> downloadTimeoutMs
    [] variant = "par" -> fetchTimeoutMs
    [] OTHER -> 0

Started ==
  /\ variant \in Variants
  /\ reqFiles = [kind |-> "array", list |-> files]
  /\ jobs = "none"
  /\ allowPartial \in (IF variant \in {"pass", "web"} THEN {FALSE} ELSE BOOLEAN)
  /\ optParallel \in (IF variant = "par" THEN ParallelOptions ELSE {0})
  /\ tpc = [i \in Idx |-> IF variant \in {"disk", "temp"} THEN "queued" ELSE "unsubmitted"]
  /\ attempt = [i \in Idx |-> 0]
  /\ outcome = [i \in Idx |-> "none"]
  /\ tempFiles = <<>>
  /\ disk = {}
  /\ failed = <<>>
  /\ entries = <<>>
  /\ archState = "open"
  /\ drained = 0
  /\ finalizeCalls = 0
  /\ isAborted = FALSE
  /\ res = [ended |-> FALSE, destroyed |-> FALSE, closed |-> FALSE,
            bytes |-> FALSE, status |-> 200]
  /\ clientAborted = FALSE
  /\ closeHook = FALSE
  /\ zipOnDisk = (variant = "disk")
  /\ rejection = "none"
  /\ hpc = "tasks"
  /\ loopI = 1
  /\ cleanIdx = 1
  /\ cleanLimit = 0
  /\ timers = [i \in Idx |-> 0]

Init == files \in FileLists /\ Started

----------------------------------------------------------------------------
\* disk and temp: the limiter task of entry i, files.map((f, idx) => limit(...))

\* p-limit runs the queue head; the task runs up to its first await: the
\* isAborted checks (temp), tempFiles.push and the first downloadToTemp call.
StartTempTask(i) ==
  /\ variant \in {"disk", "temp"}
  /\ DispatchEnabled
  /\ i = QueueHead
  /\ IF variant = "temp" /\ isAborted
     THEN /\ tpc' = [tpc EXCEPT ![i] = "fulfilled"]
          /\ UNCHANGED <<attempt, tempFiles, timers>>
     ELSE /\ tpc' = [tpc EXCEPT ![i] = "fetch"]
          /\ attempt' = [attempt EXCEPT ![i] = 1]
          /\ tempFiles' = Append(tempFiles, i)
          /\ timers' = [timers EXCEPT ![i] = AttemptTimer]
  /\ UNCHANGED <<variant, files, reqFiles, jobs, allowPartial, optParallel, outcome, disk, failed,
                 entries, archState, drained, finalizeCalls, isAborted, res,
                 clientAborted, closeHook, zipOnDisk, rejection, hpc, loopI,
                 cleanIdx, cleanLimit>>

\* downloadToTemp: fetch answered ok with a body; fs.createWriteStream(destPath)
\* creates the temp file and pipeline() starts copying.
DownloadResponds(i) ==
  /\ variant \in {"disk", "temp"}
  /\ Idle
  /\ tpc[i] = "fetch"
  /\ tpc' = [tpc EXCEPT ![i] = "pipe"]
  /\ disk' = disk \cup {i}
  /\ UNCHANGED <<variant, files, reqFiles, jobs, allowPartial, optParallel, attempt, outcome,
                 tempFiles, failed, entries, archState, drained, finalizeCalls,
                 isAborted, res, clientAborted, closeHook, zipOnDisk, rejection,
                 hpc, loopI, cleanIdx, cleanLimit, timers>>

\* downloadToTemp returned: archive.file(tempFile, { name }) and return.
DownloadCompletes(i) ==
  /\ variant \in {"disk", "temp"}
  /\ Idle
  /\ tpc[i] = "pipe"
  /\ entries' = Registered(RealEntry(i))
  /\ res' = ResAfterRegister
  /\ tpc' = [tpc EXCEPT ![i] = "fulfilled"]
  /\ attempt' = [attempt EXCEPT ![i] = 0]
  /\ timers' = [timers EXCEPT ![i] = 0]
  /\ outcome' = [outcome EXCEPT ![i] = "ok"]
  /\ UNCHANGED <<variant, files, reqFiles, jobs, allowPartial, optParallel, tempFiles,
                 disk, failed, archState, drained, finalizeCalls, isAborted,
                 clientAborted, closeHook, zipOnDisk, rejection, hpc, loopI,
                 cleanIdx, cleanLimit>>

\* downloadToTemp threw (from fetch, the status check or pipeline): the catch
\* block of the retry loop.
DownloadFails(i, reason) ==
  /\ variant \in {"disk", "temp"}
  /\ Idle
  /\ \/ tpc[i] = "fetch" /\ reason \in FetchFailures
     \/ tpc[i] = "pipe" /\ reason \in BodyFailures
  /\ IF attempt[i] = maxRetry
     THEN /\ failed' = Append(failed, [zip_path |-> EntryName(i), reason |-> reason])
          /\ outcome' = [outcome EXCEPT ![i] = reason]
          /\ attempt' = [attempt EXCEPT ![i] = 0]
          /\ timers' = [timers EXCEPT ![i] = 0]
          /\ IF ~allowPartial
             THEN /\ tpc' = [tpc EXCEPT ![i] = "rejected"]
                  /\ rejection' = IF rejection = "none" THEN reason ELSE rejection
                  /\ UNCHANGED <<entries, res>>
             ELSE /\ entries' = Registered(Placeholder(i))
                  /\ res' = ResAfterRegister
                  /\ tpc' = [tpc EXCEPT ![i] = "fulfilled"]
                  /\ UNCHANGED rejection
     ELSE /\ tpc' = [tpc EXCEPT ![i] = "backoff"]
          /\ timers' = [timers EXCEPT ![i] = waitMs(attempt[i])]
          /\ UNCHANGED <<failed, entries, res, rejection, outcome, attempt>>
  /\ UNCHANGED <<variant, files, reqFiles, jobs, allowPartial, optParallel, tempFiles,
                 disk, archState, drained, finalizeCalls, isAborted,
                 clientAborted, closeHook, zipOnDisk, hpc, loopI, cleanIdx,
                 cleanLimit>>

\* the backoff timer fired: attempt++, the loop's isAborted check (temp), and
\* the next downloadToTemp call, which sets the attempt's timer.
BackoffElapsed(i) ==
  /\ variant \in {"disk", "temp"}
  /\ Idle
  /\ tpc[i] = "backoff"
  /\ IF variant = "temp" /\ isAborted
     THEN /\ tpc' = [tpc EXCEPT ![i] = "fulfilled"]
          /\ attempt' = [attempt EXCEPT ![i] = 0]
          /\ timers' = [timers EXCEPT ![i] = 0]
     ELSE /\ tpc' = [tpc EXCEPT ![i] = "fetch"]
          /\ attempt' = [attempt EXCEPT ![i] = attempt[i] + 1]
          /\ timers' = [timers EXCEPT ![i] = AttemptTimer]
  /\ UNCHANGED <<variant, files, reqFiles, jobs, allowPartial, optParallel, outcome, tempFiles,
                 disk, failed, entries, archState, drained, finalizeCalls,
                 isAborted, res, clientAborted, closeHook, zipOnDisk, rejection,
                 hpc, loopI, cleanIdx, cleanLimit>>

----------------------------------------------------------------------------
\* par and pass: for (i ...) { await limit(async () => { ... }) }

\* the loop hands entry loopI to the limiter
LoopSubmit ==
  /\ variant \in {"par", "pass", "web"}
  /\ hpc = "tasks"
  /\ rejection = "none"
  /\ loopI <= N
  /\ LoopMayAdvance(loopI)
  /\ tpc' = [tpc EXCEPT ![loopI] = "queued"]
  /\ loopI' = loopI + 1
  /\ UNCHANGED <<variant, files, reqFiles, jobs, allowPartial, optParallel, attempt, outcome,
                 tempFiles, disk, failed, entries, archState, drained,
                 finalizeCalls, isAborted, res, clientAborted, closeHook,
                 zipOnDisk, rejection, hpc, cleanIdx, cleanLimit, timers>>

\* p-limit runs the task up to its first await: the fetch call
StartStreamTask(i) ==
  /\ variant \in {"par", "pass", "web"}
  /\ DispatchEnabled
  /\ i = QueueHead
  /\ tpc' = [tpc EXCEPT ![i] = "fetch"]
  /\ timers' = [timers EXCEPT ![i] = AttemptTimer]
  /\ UNCHANGED <<variant, files, reqFiles, jobs, allowPartial, optParallel, attempt, outcome,
                 tempFiles, disk, failed, entries, archState, drained,
                 finalizeCalls, isAborted, res, clientAborted, closeHook,
                 zipOnDisk, rejection, hpc, loopI, cleanIdx, cleanLimit>>

\* the task's failure path.  par: catch (e) { failed.push(...); if
\* (!allowPartial) throw e }, with no placeholder entry; pass and web: the
\* error leaves the task.
StreamTaskFails(i, reason) ==
  /\ outcome' = [outcome EXCEPT ![i] = reason]
  /\ timers' = [timers EXCEPT ![i] = 0]
  /\ IF variant = "par"
     THEN failed' = Append(failed, [zip_path |-> EntryName(i), reason |-> reason])
     ELSE failed' = failed
  /\ IF variant \in {"pass", "web"} \/ ~allowPartial
     THEN /\ tpc' = [tpc EXCEPT ![i] = "rejected"]
          /\ rejection' = IF rejection = "none" THEN reason ELSE rejection
     ELSE /\ tpc' = [tpc EXCEPT ![i] = "fulfilled"]
          /\ UNCHANGED rejection

\* fetch rejected, or answered with a non-ok status
StreamFetchFails(i, reason) ==
  /\ variant \in {"par", "pass", "web"}
  /\ Idle
  /\ tpc[i] = "fetch"
  /\ reason \in FetchFailures
  /\ StreamTaskFails(i, reason)
  /\ UNCHANGED <<variant, files, reqFiles, jobs, allowPartial, optParallel, attempt, tempFiles,
                 disk, entries, archState, drained, finalizeCalls, isAborted,
                 res, clientAborted, closeHook, zipOnDisk, hpc, loopI, cleanIdx,
                 cleanLimit>>

\* par, the runtime's fetch returns a Node stream: r.body.on(...) registers
\* the listeners and archive.append(r.body, { name }) queues the entry.
StreamBodyListens(i) ==
  /\ variant = "par"
  /\ Idle
  /\ tpc[i] = "fetch"
  /\ entries' = Registered(RealEntry(i))
  /\ res' = ResAfterRegister
  /\ tpc' = [tpc EXCEPT ![i] = "body"]
  /\ timers' = [timers EXCEPT ![i] = 0]
  /\ UNCHANGED <<variant, files, reqFiles, jobs, allowPartial, optParallel, attempt, outcome,
                 tempFiles, disk, failed, archState, drained, finalizeCalls,
                 isAborted, clientAborted, closeHook, zipOnDisk, rejection, hpc,
                 loopI, cleanIdx, cleanLimit>>

\* the response body is a WHATWG ReadableStream.  par: r.body.on is not a
\* function, thrown before archive.append; pass: archive.append(pass) has
\* queued the entry when response.body.pipe(pass) throws.
StreamBodyUnusable(i) ==
  /\ variant \in {"par", "pass"}
  /\ Idle
  /\ tpc[i] = "fetch"
  /\ StreamTaskFails(i, NotNodeStream)
  /\ IF variant = "pass"
     THEN entries' = Registered(RealEntry(i)) /\ res' = ResAfterRegister
     ELSE UNCHANGED <<entries, res>>
  /\ UNCHANGED <<variant, files, reqFiles, jobs, allowPartial, optParallel, attempt, tempFiles,
                 disk, archState, drained, finalizeCalls, isAborted,
                 clientAborted, closeHook, zipOnDisk, hpc, loopI, cleanIdx,
                 cleanLimit>>

\* the archiver works its queue in order: entry i is the one being written
Draining(i) ==
  /\ drained < Len(entries)
  /\ entries[drained + 1].idx = i

\* par: r.body emitted 'end' after the archiver drained it into the response
BodyEnds(i) ==
  /\ variant = "par"
  /\ Idle
  /\ tpc[i] = "body"
  /\ Draining(i)
  /\ drained' = drained + 1
  /\ res' = IF archState = "aborted" THEN res ELSE ResWrite(res)
  /\ tpc' = [tpc EXCEPT ![i] = "fulfilled"]
  /\ outcome' = [outcome EXCEPT ![i] = "ok"]
  /\ UNCHANGED <<variant, files, reqFiles, jobs, allowPartial, optParallel, attempt, tempFiles,
                 disk, failed, entries, archState, finalizeCalls, isAborted,
                 clientAborted, closeHook, zipOnDisk, rejection, hpc, loopI,
                 cleanIdx, cleanLimit, timers>>

\* par: r.body emitted 'error'
BodyErrors(i, reason) ==
  /\ variant = "par"
  /\ Idle
  /\ tpc[i] = "body"
  /\ reason \in BodyFailures
  /\ StreamTaskFails(i, reason)
  /\ UNCHANGED <<variant, files, reqFiles, jobs, allowPartial, optParallel, attempt, tempFiles,
                 disk, entries, archState, drained, finalizeCalls, isAborted,
                 res, clientAborted, closeHook, zipOnDisk, hpc, loopI, cleanIdx,
                 cleanLimit>>

\* web: the fetch answered ok: Readable.fromWeb(response.body),
\* archive.append(nodeStream, { name }) and the task returns, without waiting
\* for the archive to read the stream.
WebAppends(i) ==
  /\ variant = "web"
  /\ Idle
  /\ tpc[i] = "fetch"
  /\ entries' = Registered(RealEntry(i))
  /\ res' = ResAfterRegister
  /\ tpc' = [tpc EXCEPT ![i] = "fulfilled"]
  /\ outcome' = [outcome EXCEPT ![i] = "ok"]
  /\ UNCHANGED <<variant, files, reqFiles, jobs, allowPartial, optParallel,
                 attempt, tempFiles, disk, failed, archState, drained,
                 finalizeCalls, isAborted, clientAborted, closeHook, zipOnDisk,
                 rejection, hpc, loopI, cleanIdx, cleanLimit, timers>>

\* web: the archiver read the next queued stream to its end and wrote the
\* entry into the response
WebDrain ==
  /\ variant = "web"
  /\ Idle
  /\ archState \in {"open", "finalizing"}
  /\ drained < Len(entries)
  /\ drained' = drained + 1
  /\ res' = ResWrite(res)
  /\ UNCHANGED <<variant, files, reqFiles, jobs, allowPartial, optParallel, tpc,
                 attempt, outcome, tempFiles, disk, failed, entries, archState,
                 finalizeCalls, isAborted, clientAborted, closeHook, zipOnDisk,
                 rejection, hpc, loopI, cleanIdx, cleanLimit, timers>>

----------------------------------------------------------------------------
\* The archiver writing queued entries into its sink

\* disk, temp and job: the next queued entry is read (its temp file, its
\* buffer or the placeholder text) and written to the sink: the response in
\* temp, the staged zip file in disk and job.  A temp file that is gone is
\* skipped.
ArchiveDrain ==
  /\ variant \in {"disk", "temp", "job"}
  /\ Idle
  /\ archState \in {"open", "finalizing"}
  /\ drained < Len(entries)
  /\ drained' = drained + 1
  /\ LET e == entries[drained + 1]
     IN res' = IF variant = "temp" /\ (e.kind = "placeholder" \/ e.idx \in disk)
               THEN ResWrite(res) ELSE res
  /\ UNCHANGED <<variant, files, reqFiles, jobs, allowPartial, optParallel, tpc, attempt,
                 outcome, tempFiles, disk, failed, entries, archState,
                 finalizeCalls, isAborted, clientAborted, closeHook, zipOnDisk,
                 rejection, hpc, loopI, cleanIdx, cleanLimit, timers>>

----------------------------------------------------------------------------
\* The handler

\* where the handler goes after try/catch: disk and temp have a finally block
AfterTry == IF variant \in {"disk", "temp"} THEN "cleanup" ELSE "done"

\* the catch block: res.destroy(err) in temp and pass, res.status(500).end()
\* in disk; par's catch around finalize only logs
CatchRes(r) ==
  CASE variant \in {"temp", "pass", "web"} -> ResDestroy(r)
    [] variant = "disk" -> ResEnd(r, 500)
    [] variant = "par" -> r

\* every task fulfilled: await archive.finalize().  On an aborted archive
\* finalize() raises 'error' (ABORTED) and rejects.
HandlerFinalize ==
  /\ hpc = "tasks"
  /\ ~DispatchEnabled
  /\ rejection = "none"
  /\ AllFulfilled
  /\ finalizeCalls' = finalizeCalls + 1
  /\ IF Accepts
     THEN /\ archState' = "finalizing"
          /\ hpc' = "finalizing"
          /\ UNCHANGED <<res, zipOnDisk, cleanLimit>>
     ELSE /\ res' = CatchRes(OnArchiveError(res))
          /\ zipOnDisk' = FALSE
          /\ hpc' = AfterTry
          /\ cleanLimit' = Len(tempFiles)
          /\ UNCHANGED archState
  /\ UNCHANGED <<variant, files, reqFiles, jobs, allowPartial, optParallel, tpc, attempt,
                 outcome, tempFiles, disk, failed, entries, drained, isAborted,
                 clientAborted, closeHook, rejection, loopI, cleanIdx,
                 timers>>

\* the archive ended: the finalize promise resolves.  temp, par, pass: the
\* pipe ends the response.  disk: the staged zip is streamed to the response
\* and res.on("close") is registered to unlink it.
FinalizeCompletes ==
  /\ hpc = "finalizing"
  /\ Idle
  /\ archState = "finalizing"
  /\ drained = Len(entries)
  /\ archState' = "finalized"
  /\ IF variant = "disk"
     THEN res' = ResWrite(res) /\ closeHook' = TRUE
     ELSE res' = ResEnd(res, 200) /\ UNCHANGED closeHook
  /\ hpc' = AfterTry
  /\ cleanLimit' = Len(tempFiles)
  /\ UNCHANGED <<variant, files, reqFiles, jobs, allowPartial, optParallel, tpc, attempt,
                 outcome, tempFiles, disk, failed, entries, drained,
                 finalizeCalls, isAborted, clientAborted, zipOnDisk, rejection,
                 loopI, cleanIdx, timers>>

\* the archive was aborted while the handler awaited finalize(): the handler
\* leaves the await (it may also never do so, which is this step not taken)
FinalizeAborted ==
  /\ hpc = "finalizing"
  /\ Idle
  /\ archState = "aborted"
  /\ res' = CatchRes(res)
  /\ hpc' = AfterTry
  /\ cleanLimit' = Len(tempFiles)
  /\ UNCHANGED <<variant, files, reqFiles, jobs, allowPartial, optParallel, tpc, attempt,
                 outcome, tempFiles, disk, failed, entries, archState, drained,
                 finalizeCalls, isAborted, clientAborted, closeHook, zipOnDisk,
                 rejection, loopI, cleanIdx, timers>>

\* disk, temp, pass: a task rejected, so the awaited promise rejects and the
\* catch block runs; disk also unlinks the staged zip.  Tasks still queued or
\* running in the limiter are not told.
HandlerCatch ==
  /\ variant \in {"disk", "temp", "pass", "web"}
  /\ hpc = "tasks"
  /\ ~DispatchEnabled
  /\ rejection # "none"
  /\ res' = CatchRes(res)
  /\ zipOnDisk' = FALSE
  /\ hpc' = AfterTry
  /\ cleanLimit' = Len(tempFiles)
  /\ UNCHANGED <<variant, files, reqFiles, jobs, allowPartial, optParallel, tpc, attempt,
                 outcome, tempFiles, disk, failed, entries, archState, drained,
                 finalizeCalls, isAborted, clientAborted, closeHook, rejection,
                 loopI, cleanIdx, timers>>

\* par: the loop is not inside a try block, so the rethrown error rejects the
\* handler's own promise: nothing ends the response or finalizes the archive.
HandlerDies ==
  /\ variant = "par"
  /\ hpc = "tasks"
  /\ ~DispatchEnabled
  /\ rejection # "none"
  /\ hpc' = "dead"
  /\ UNCHANGED <<variant, files, reqFiles, jobs, allowPartial, optParallel, tpc, attempt,
                 outcome, tempFiles, disk, failed, entries, archState, drained,
                 finalizeCalls, isAborted, res, clientAborted, closeHook,
                 zipOnDisk, rejection, loopI, cleanIdx, cleanLimit, timers>>

\* finally: one fs.promises.unlink per tracked path; a missing file is ignored
Unlink ==
  /\ hpc = "cleanup"
  /\ Idle
  /\ cleanIdx <= CleanBound
  /\ disk' = disk \ {tempFiles[cleanIdx]}
  /\ cleanIdx' = cleanIdx + 1
  /\ UNCHANGED <<variant, files, reqFiles, jobs, allowPartial, optParallel, tpc, attempt,
                 outcome, tempFiles, failed, entries, archState, drained,
                 finalizeCalls, isAborted, res, clientAborted, closeHook,
                 zipOnDisk, rejection, hpc, loopI, cleanLimit, timers>>

\* the finally block ran out of tracked paths: the handler returns
CleanupDone ==
  /\ hpc = "cleanup"
  /\ ~DispatchEnabled
  /\ cleanIdx > CleanBound
  /\ hpc' = "done"
  /\ UNCHANGED <<variant, files, reqFiles, jobs, allowPartial, optParallel, tpc, attempt,
                 outcome, tempFiles, disk, failed, entries, archState, drained,
                 finalizeCalls, isAborted, res, clientAborted, closeHook,
                 zipOnDisk, rejection, loopI, cleanIdx, cleanLimit, timers>>

----------------------------------------------------------------------------
\* The response's 'close' event

\* res.on("close", ...): temp sets isAborted and aborts the archive, par
\* aborts the archive, both only if (!res.writableEnded); disk unlinks the
\* staged zip once its hook is registered; pass has no listener.
OnClose ==
  /\ isAborted' = (isAborted \/ (variant = "temp" /\ ~res.ended))
  /\ archState' = IF variant \in {"temp", "par"} /\ ~res.ended
                  THEN Abort(archState) ELSE archState
  /\ zipOnDisk' = (zipOnDisk /\ ~closeHook)

\* the client closes the connection before the response has ended
ClientCloses ==
  /\ Idle
  /\ ~res.closed /\ ~res.destroyed /\ ~res.ended
  /\ res' = [res EXCEPT !.closed = TRUE]
  /\ clientAborted' = TRUE
  /\ OnClose
  /\ UNCHANGED <<variant, files, reqFiles, jobs, allowPartial, optParallel, tpc, attempt,
                 outcome, tempFiles, disk, failed, entries, drained,
                 finalizeCalls, closeHook, rejection, hpc, loopI, cleanIdx,
                 cleanLimit, timers>>

\* the 'close' event that follows res.destroy(err)
DestroyCloses ==
  /\ Idle
  /\ res.destroyed /\ ~res.closed
  /\ res' = [res EXCEPT !.closed = TRUE]
  /\ OnClose
  /\ UNCHANGED <<variant, files, reqFiles, jobs, allowPartial, optParallel, tpc, attempt,
                 outcome, tempFiles, disk, failed, entries, drained,
                 finalizeCalls, clientAborted, closeHook, rejection, hpc, loopI,
                 cleanIdx, cleanLimit, timers>>

\* disk: the staged zip was streamed to the end; the response ends and closes
ResponseFinishes ==
  /\ variant = "disk"
  /\ Idle
  /\ closeHook
  /\ res.bytes /\ ~res.closed /\ ~res.ended
  /\ res' = [res EXCEPT !.ended = TRUE, !.closed = TRUE]
  /\ zipOnDisk' = FALSE
  /\ UNCHANGED <<variant, files, reqFiles, jobs, allowPartial, optParallel, tpc, attempt,
                 outcome, tempFiles, disk, failed, entries, archState, drained,
                 finalizeCalls, isAborted, clientAborted, closeHook, rejection,
                 hpc, loopI, cleanIdx, cleanLimit, timers>>

----------------------------------------------------------------------------

Next ==
  \/ \E i \in Idx : StartTempTask(i)
  \/ \E i \in Idx : DownloadResponds(i)
  \/ \E i \in Idx : DownloadCompletes(i)
  \/ \E i \in Idx, reason \in FetchFailures \cup BodyFailures : DownloadFails(i, reason)
  \/ \E i \in Idx : BackoffElapsed(i)
  \/ LoopSubmit
  \/ \E i \in Idx : StartStreamTask(i)
  \/ \E i \in Idx, reason \in FetchFailures : StreamFetchFails(i, reason)
  \/ \E i \in Idx : StreamBodyListens(i)
  \/ \E i \in Idx : StreamBodyUnusable(i)
  \/ \E i \in Idx : BodyEnds(i)
  \/ \E i \in Idx, reason \in BodyFailures : BodyErrors(i, reason)
  \/ \E i \in Idx : WebAppends(i)
  \/ WebDrain
  \/ ArchiveDrain
  \/ HandlerFinalize
  \/ FinalizeCompletes
  \/ FinalizeAborted
  \/ HandlerCatch
  \/ HandlerDies
  \/ Unlink
  \/ CleanupDone
  \/ ClientCloses
  \/ DestroyCloses
  \/ ResponseFinishes

Spec == Init /\ [][Next]_vars

----------------------------------------------------------------------------
\* The request as it arrives, and the asynchronous job variant

AllVariants == Variants \cup {"job"}

\* req.body.files (req.body.videos in job): absent, something that is no
\* array, or an array, possibly empty
Requests ==
  { [kind |-> k, list |-> <<>>] : k \in {"missing", "not_array"} }
    \cup { [kind |-> "array", list |-> l] : l \in FileLists \cup {<<>>} }

\* an input check that forgets the empty array
InvalidInputButEmpty(r) == r.kind # "array"

\* !Array.isArray(files) || files.length === 0
InvalidInput(r) == r.kind # "array" \/ r.list = <<>>

jobMaxRetry == 2

\* error.message of a failed storage download
JobFailures == {"storage_error"}

\* the request has arrived and the handler has not run yet: nothing exists
RequestInit ==
  /\ variant \in AllVariants
  /\ reqFiles \in Requests
  /\ files = <<>>
  /\ jobs = "none"
  /\ allowPartial \in (IF variant \in {"pass", "web"} THEN {FALSE}
                        ELSE IF variant = "job" THEN {TRUE} ELSE BOOLEAN)
  /\ optParallel \in (IF variant = "par" THEN ParallelOptions ELSE {0})
  /\ tpc = <<>>
  /\ attempt = <<>>
  /\ outcome = <<>>
  /\ tempFiles = <<>>
  /\ disk = {}
  /\ failed = <<>>
  /\ entries = <<>>
  /\ archState = "none"
  /\ drained = 0
  /\ finalizeCalls = 0
  /\ isAborted = FALSE
  /\ res = [ended |-> FALSE, destroyed |-> FALSE, closed |-> FALSE,
            bytes |-> FALSE, status |-> 200]
  /\ clientAborted = FALSE
  /\ closeHook = FALSE
  /\ zipOnDisk = FALSE
  /\ rejection = "none"
  /\ hpc = "request"
  /\ loopI = 1
  /\ cleanIdx = 1
  /\ cleanLimit = 0
  /\ timers = <<>>

\* The handler's synchronous start.  An invalid list is answered with 400 and
\* nothing else happens.  Otherwise the archive (and the staged zip file in
\* disk and job) is created and the tasks are queued; job records the job as
\* processing, starts processZipJob, which runs up to its first download, and
\* answers with the job id.
Validate ==
  /\ hpc = "request"
  /\ IF InvalidInput(reqFiles)
     THEN /\ res' = [res EXCEPT !.ended = TRUE, !.status = 400]
          /\ hpc' = "done"
          /\ UNCHANGED <<files, jobs, tpc, attempt, outcome, archState, zipOnDisk,
                         timers>>
     ELSE /\ files' = reqFiles.list
          /\ outcome' = [i \in 1..Len(reqFiles.list) |-> "none"]
          /\ timers' = [i \in 1..Len(reqFiles.list) |-> 0]
          /\ archState' = "open"
          /\ zipOnDisk' = (variant \in {"disk", "job"})
          /\ IF variant = "job"
             THEN /\ jobs' = "processing"
                  /\ tpc' = [i \in 1..Len(reqFiles.list) |->
                               IF i = 1 THEN "fetch" ELSE "unsubmitted"]
                  /\ attempt' = [i \in 1..Len(reqFiles.list) |->
                                   IF i = 1 THEN 1 ELSE 0]
                  /\ res' = [res EXCEPT !.ended = TRUE]
                  /\ hpc' = "job"
             ELSE /\ jobs' = jobs
                  /\ tpc' = [i \in 1..Len(reqFiles.list) |->
                               IF variant \in {"disk", "temp"} THEN "queued"
                               ELSE "unsubmitted"]
                  /\ attempt' = [i \in 1..Len(reqFiles.list) |-> 0]
                  /\ res' = res
                  /\ hpc' = "tasks"
  /\ UNCHANGED <<variant, reqFiles, allowPartial, optParallel, tempFiles, disk,
                 failed, entries, drained, finalizeCalls, isAborted,
                 clientAborted, closeHook, rejection, loopI, cleanIdx,
                 cleanLimit>>

\* job: video i is settled (its buffer or its placeholder appended); the for
\* loop starts the next video's download, or, after the last one, calls
\* archive.finalize() and awaits finalizePromise.
JobSettles(i, rec, result) ==
  /\ entries' = Registered(rec)
  /\ outcome' = [outcome EXCEPT ![i] = result]
  /\ IF i < N
     THEN /\ tpc' = [tpc EXCEPT ![i] = "fulfilled", ![i + 1] = "fetch"]
          /\ attempt' = [attempt EXCEPT ![i] = 0, ![i + 1] = 1]
          /\ loopI' = i + 1
          /\ UNCHANGED <<finalizeCalls, archState, hpc>>
     ELSE /\ tpc' = [tpc EXCEPT ![i] = "fulfilled"]
          /\ attempt' = [attempt EXCEPT ![i] = 0]
          /\ finalizeCalls' = finalizeCalls + 1
          /\ archState' = "finalizing"
          /\ hpc' = "jobfinalizing"
          /\ UNCHANGED loopI

\* job: the storage download answered: archive.append(buffer, { name })
JobDownloadOk(i) ==
  /\ variant = "job"
  /\ hpc = "job"
  /\ tpc[i] = "fetch"
  /\ JobSettles(i, RealEntry(i), "ok")
  /\ UNCHANGED <<variant, files, reqFiles, jobs, allowPartial, optParallel,
                 tempFiles, disk, failed, drained, isAborted, res,
                 clientAborted, closeHook, zipOnDisk, rejection, cleanIdx,
                 cleanLimit, timers>>

\* job: the download failed: wait and retry, or, on the last attempt, append
\* the placeholder and go on
JobDownloadFails(i, reason) ==
  /\ variant = "job"
  /\ hpc = "job"
  /\ tpc[i] = "fetch"
  /\ reason \in JobFailures
  /\ IF attempt[i] = jobMaxRetry
     THEN JobSettles(i, Placeholder(i), reason) /\ UNCHANGED timers
     ELSE /\ tpc' = [tpc EXCEPT ![i] = "backoff"]
          /\ timers' = [timers EXCEPT ![i] = jobDelayMs]
          /\ UNCHANGED <<entries, outcome, attempt, loopI, finalizeCalls,
                         archState, hpc>>
  /\ UNCHANGED <<variant, files, reqFiles, jobs, allowPartial, optParallel,
                 tempFiles, disk, failed, drained, isAborted, res,
                 clientAborted, closeHook, zipOnDisk, rejection, cleanIdx,
                 cleanLimit>>

\* job: the 500 ms timer fired: the next attempt
JobBackoffElapsed(i) ==
  /\ variant = "job"
  /\ hpc = "job"
  /\ tpc[i] = "backoff"
  /\ tpc' = [tpc EXCEPT ![i] = "fetch"]
  /\ timers' = [timers EXCEPT ![i] = 0]
  /\ attempt' = [attempt EXCEPT ![i] = attempt[i] + 1]
  /\ UNCHANGED <<variant, files, reqFiles, jobs, allowPartial, optParallel,
                 outcome, tempFiles, disk, failed, entries, archState, drained,
                 finalizeCalls, isAborted, res, clientAborted, closeHook,
                 zipOnDisk, rejection, hpc, loopI, cleanIdx, cleanLimit>>

\* job: the archive ended and the output file closed: finalizePromise
\* resolves and the upload starts
JobArchiveEnds ==
  /\ variant = "job"
  /\ hpc = "jobfinalizing"
  /\ archState = "finalizing"
  /\ drained = Len(entries)
  /\ archState' = "finalized"
  /\ hpc' = "upload"
  /\ UNCHANGED <<variant, files, reqFiles, jobs, allowPartial, optParallel, tpc,
                 attempt, outcome, tempFiles, disk, failed, entries, drained,
                 finalizeCalls, isAborted, res, clientAborted, closeHook,
                 zipOnDisk, rejection, loopI, cleanIdx, cleanLimit, timers>>

\* job: the archive raised 'error': finalizePromise rejects, processZipJob
\* rejects outside its try block, and the .catch of the handler records the
\* failure; the staged zip stays
JobArchiveFails ==
  /\ variant = "job"
  /\ hpc = "jobfinalizing"
  /\ archState = "finalizing"
  /\ jobs' = "failed"
  /\ hpc' = "done"
  /\ UNCHANGED <<variant, files, reqFiles, allowPartial, optParallel, tpc,
                 attempt, outcome, tempFiles, disk, failed, entries, archState,
                 drained, finalizeCalls, isAborted, res, clientAborted,
                 closeHook, zipOnDisk, rejection, loopI, cleanIdx, cleanLimit,
                 timers>>

\* job: readFileSync and upload went through
JobUploadOk ==
  /\ variant = "job"
  /\ hpc = "upload"
  /\ hpc' = "sign"
  /\ UNCHANGED <<variant, files, reqFiles, jobs, allowPartial, optParallel, tpc,
                 attempt, outcome, tempFiles, disk, failed, entries, archState,
                 drained, finalizeCalls, isAborted, res, clientAborted,
                 closeHook, zipOnDisk, rejection, loopI, cleanIdx, cleanLimit,
                 timers>>

\* job: createSignedUrl went through: jobs.set(jobId, { status: "completed" })
JobSignOk ==
  /\ variant = "job"
  /\ hpc = "sign"
  /\ jobs' = "completed"
  /\ hpc' = "finally"
  /\ UNCHANGED <<variant, files, reqFiles, allowPartial, optParallel, tpc,
                 attempt, outcome, tempFiles, disk, failed, entries, archState,
                 drained, finalizeCalls, isAborted, res, clientAborted,
                 closeHook, zipOnDisk, rejection, loopI, cleanIdx, cleanLimit,
                 timers>>

\* job: the upload or the signing failed: the catch block records the failure
JobUploadFails ==
  /\ variant = "job"
  /\ hpc \in {"upload", "sign"}
  /\ jobs' = "failed"
  /\ hpc' = "finally"
  /\ UNCHANGED <<variant, files, reqFiles, allowPartial, optParallel, tpc,
                 attempt, outcome, tempFiles, disk, failed, entries, archState,
                 drained, finalizeCalls, isAborted, res, clientAborted,
                 closeHook, zipOnDisk, rejection, loopI, cleanIdx, cleanLimit,
                 timers>>

\* job: finally { if (fs.existsSync(tmpPath)) fs.unlinkSync(tmpPath) }
JobFinallyUnlinks ==
  /\ variant = "job"
  /\ hpc = "finally"
  /\ zipOnDisk' = FALSE
  /\ hpc' = "done"
  /\ UNCHANGED <<variant, files, reqFiles, jobs, allowPartial, optParallel, tpc,
                 attempt, outcome, tempFiles, disk, failed, entries, archState,
                 drained, finalizeCalls, isAborted, res, clientAborted,
                 closeHook, rejection, loopI, cleanIdx, cleanLimit, timers>>

\* job: fs.unlinkSync throws in the finally block (the file went away after
\* existsSync, or an I/O error): the exception leaves processZipJob and the
\* .catch of the handler runs jobs.set(jobId, { status: "failed" })
JobFinallyThrows ==
  /\ variant = "job"
  /\ hpc = "finally"
  /\ jobs' = "failed"
  /\ hpc' = "done"
  /\ UNCHANGED <<variant, files, reqFiles, allowPartial, optParallel, tpc,
                 attempt, outcome, tempFiles, disk, failed, entries, archState,
                 drained, finalizeCalls, isAborted, res, clientAborted,
                 closeHook, zipOnDisk, rejection, loopI, cleanIdx, cleanLimit,
                 timers>>

JobNext ==
  \/ \E i \in Idx : JobDownloadOk(i)
  \/ \E i \in Idx, reason \in JobFailures : JobDownloadFails(i, reason)
  \/ \E i \in Idx : JobBackoffElapsed(i)
  \/ JobArchiveEnds
  \/ JobArchiveFails
  \/ JobUploadOk
  \/ JobSignOk
  \/ JobUploadFails
  \/ JobFinallyUnlinks
  \/ JobFinallyThrows

ServiceNext == Validate \/ Next \/ JobNext

ServiceSpec == RequestInit /\ [][ServiceNext]_vars

\* a source answers, ends its body or fails: the fetch capability returns
SourceAnswers ==
  \/ \E i \in Idx : DownloadResponds(i) \/ DownloadCompletes(i)
  \/ \E i \in Idx, reason \in FetchFailures \cup BodyFailures : DownloadFails(i, reason)
  \/ \E i \in Idx, reason \in FetchFailures : StreamFetchFails(i, reason)
  \/ \E i \in Idx : StreamBodyListens(i) \/ StreamBodyUnusable(i) \/ BodyEnds(i)
  \/ \E i \in Idx, reason \in BodyFailures : BodyErrors(i, reason)
  \/ \E i \in Idx : WebAppends(i) \/ JobDownloadOk(i)
  \/ \E i \in Idx, reason \in JobFailures : JobDownloadFails(i, reason)

\* The event loop runs every runnable microtask and every callback that is
\* due: the limiter's dispatch, the handler's continuations, timers, file
\* system and stream callbacks, storage calls.  A client that stays connected
\* reads the response to its end.  Nothing makes the client close the
\* connection, and nothing makes a finalize() awaited on an aborted archive
\* return.
Fairness ==
  /\ WF_vars(Validate)
  /\ WF_vars(\E i \in Idx : StartTempTask(i))
  /\ WF_vars(LoopSubmit)
  /\ WF_vars(\E i \in Idx : StartStreamTask(i))
  /\ WF_vars(\E i \in Idx : BackoffElapsed(i) \/ JobBackoffElapsed(i))
  /\ WF_vars(SourceAnswers)
  /\ WF_vars(ArchiveDrain \/ WebDrain)
  /\ WF_vars(HandlerFinalize)
  /\ WF_vars(FinalizeCompletes)
  /\ WF_vars(HandlerCatch \/ HandlerDies)
  /\ WF_vars(Unlink \/ CleanupDone)
  /\ WF_vars(DestroyCloses)
  /\ WF_vars(ResponseFinishes)
  /\ WF_vars(JobArchiveEnds \/ JobArchiveFails)
  /\ WF_vars(JobUploadOk \/ JobSignOk \/ JobUploadFails)
  /\ WF_vars(JobFinallyUnlinks \/ JobFinallyThrows)

LiveSpec == RequestInit /\ [][ServiceNext]_vars /\ Fairness

----------------------------------------------------------------------------
\* Name computation on its own: each task computes its entry name and hands
\* it to the archive, in entry order, over every requested name up to
\* MaxNameLen characters.

NamesInit == files \in NameLists /\ Started

\* zipPath = sanitize(f.zip_path || default); archive.file(..., { name: zipPath })
\* (archive.append(stream, { name }) in par and pass)
NameEntry(i) ==
  /\ i = Len(entries) + 1
  /\ entries' = Registered(RealEntry(i))
  /\ UNCHANGED <<variant, files, reqFiles, jobs, allowPartial, optParallel, tpc, attempt,
                 outcome, tempFiles, disk, failed, archState, drained,
                 finalizeCalls, isAborted, res, clientAborted, closeHook,
                 zipOnDisk, rejection, hpc, loopI, cleanIdx, cleanLimit,
                 timers>>

\* disk and temp, allowPartial: archive.append(text, { name: `${zipPath}.error.txt` })
NamePlaceholder(i) ==
  /\ variant \in {"disk", "temp"}
  /\ allowPartial
  /\ i = Len(entries) + 1
  /\ entries' = Registered(Placeholder(i))
  /\ UNCHANGED <<variant, files, reqFiles, jobs, allowPartial, optParallel, tpc, attempt,
                 outcome, tempFiles, disk, failed, archState, drained,
                 finalizeCalls, isAborted, res, clientAborted, closeHook,
                 zipOnDisk, rejection, hpc, loopI, cleanIdx, cleanLimit,
                 timers>>

NamesNext ==
  \/ \E i \in Idx : NameEntry(i)
  \/ \E i \in Idx : NamePlaceholder(i)

NamesSpec == NamesInit /\ [][NamesNext]_vars

----------------------------------------------------------------------------
\* Vocabulary of the properties

\* entry i's last attempt failed for good
Failing(i) == outcome[i] \notin {"none", "ok"}

\* the failure records of the failing entries 1..k, in entry order
RECURSIVE FailedUpTo(_)
FailedUpTo(k) ==
  IF k = 0 THEN <<>>
  ELSE FailedUpTo(k - 1) \o
       (IF Failing(k) THEN <<[zip_path |-> EntryName(k), reason |-> outcome[k]]>>
        ELSE <<>>)

EntryIdxs(kind) == {entries[k].idx : k \in {j \in 1..Len(entries) : entries[j].kind = kind}}

\* a download attempt of entry i begins in this step
AttemptBegins(i) == tpc[i] # "fetch" /\ tpc'[i] = "fetch"

----------------------------------------------------------------------------
\* C1: with allow_partial = true the finalized archive holds exactly N
\* entries: a real entry under its sanitized name for every source that
\* succeeded, a placeholder named <entry>.error.txt for every source that
\* failed for good, and the failure list holds one record per failed entry.
C1_PartialArchiveComplete ==
  (variant \in {"temp", "par"} /\ allowPartial /\ archState = "finalized") =>
    /\ Len(entries) = N
    /\ \A i \in Idx :
         IF Failing(i)
         THEN \E k \in 1..Len(entries) :
                /\ entries[k].idx = i
                /\ entries[k].kind = "placeholder"
                /\ entries[k].name = EntryName(i) \o <<".error.txt">>
         ELSE \E k \in 1..Len(entries) :
                /\ entries[k].idx = i
                /\ entries[k].kind = "real"
                /\ entries[k].name = EntryName(i)
    /\ Len(failed) = Cardinality({i \in Idx : Failing(i)})
    /\ \A i \in Idx : Failing(i) =>
         \E k \in 1..Len(failed) : failed[k].zip_path = EntryName(i)

\* C2: with allow_partial = false, once a source has failed for good no
\* archive byte has been or is written to the response, finalize() is not
\* called, and the job fails with the first reason encountered.
C2_NothingDeliveredOnFailure ==
  (variant \in {"disk", "temp"} /\ ~allowPartial /\ failed # <<>>) =>
    /\ ~res.bytes
    /\ finalizeCalls = 0
    /\ rejection = failed[1].reason
    /\ hpc = "done" => (res.destroyed \/ res.closed \/ (res.ended /\ res.status = 500))

\* C3: once the handler's finally block has run, no source temp file of the
\* job exists on disk, whichever way the job ended.
C3_NoTempFileAfterCleanup ==
  (variant \in {"disk", "temp"} /\ hpc = "done") => disk = {}

\* C4: with allow_partial = false no download attempt begins after the first
\* entry has failed for good; with allow_partial = true a terminal failure
\* leaves every other entry's task where it is.
C4_FailFast ==
  [][ /\ (variant \in {"disk", "temp"} /\ ~allowPartial /\ failed # <<>>)
         => \A i \in Idx : ~AttemptBegins(i)
      /\ (variant \in {"disk", "temp"} /\ allowPartial /\ Len(failed') > Len(failed))
         => \A i \in Idx : (outcome'[i] = outcome[i]) => (tpc'[i] = tpc[i])
    ]_vars

\* C5: once the client has closed the response before the archive is
\* complete, no download goes on (no fetch is answered, none runs to
\* completion), no download attempt begins, and no temp file is left when the
\* handler has returned.
C5_ClientAbortCancels ==
  /\ [](variant = "temp" /\ clientAborted /\ hpc = "done" => disk = {})
  /\ [][ (variant = "temp" /\ clientAborted) =>
           \A i \in Idx :
             /\ ~AttemptBegins(i)
             /\ tpc[i] = "fetch" => tpc'[i] # "pipe"
             /\ tpc[i] = "pipe" => outcome'[i] # "ok"
       ]_vars

\* C6: after a client abort (archive.abort() called from the 'close'
\* listener) archive.finalize() is never called.
C6_NoFinalizeAfterAbort ==
  [][ (variant \in {"temp", "par"} /\ clientAborted /\ archState = "aborted")
        => finalizeCalls' = finalizeCalls ]_vars

\* the name the specification gives entry i: the sanitized requested name, or
\* the generated default when none was requested
ClaimedName(i) ==
  IF files[i].zip_path = <<>>
  THEN (IF variant \in {"pass", "web"} THEN DefaultFile(i) ELSE DefaultVideo(i))
  ELSE (IF variant \in {"pass", "web"} THEN sanitizeUnderscore(files[i].zip_path)
        ELSE sanitize(files[i].zip_path))

\* C7: when every source succeeds (and the client stays connected), the
\* handler ends with finalize reached, an empty failure list and exactly N
\* entries, the i-th named after entry i.
C7_AllSucceedCompletes ==
  ( /\ variant \in {"temp", "pass"}
    /\ hpc = "done"
    /\ ~clientAborted
    /\ \A i \in Idx : outcome[i] \notin FetchFailures \cup BodyFailures ) =>
    /\ finalizeCalls = 1
    /\ archState = "finalized"
    /\ failed = <<>>
    /\ Len(entries) = N
    /\ \A i \in Idx : entries[i].kind = "real" /\ entries[i].name = ClaimedName(i)

\* C8: each entry is downloaded at most 3 times; an entry whose download
\* succeeded is archived exactly once with its real content, has no
\* placeholder and no failure record; a failure record exists only for an
\* entry whose third attempt failed, with that attempt's reason.  (Stated
\* for the jobs whose client stays connected.)
C8_RetryBound ==
  (variant \in {"disk", "temp"} /\ ~clientAborted) =>
    /\ \A i \in Idx : attempt[i] <= maxRetry
    /\ \A i \in Idx : outcome[i] = "ok" =>
         /\ Cardinality({k \in 1..Len(entries) :
                           entries[k].idx = i /\ entries[k].kind = "real"}) = 1
         /\ i \notin EntryIdxs("placeholder")
    /\ failed = FailedUpTo(N)

\* C9: the entries registered in the archive (real and placeholder) and the
\* records of the failure list appear in ascending entry order, whatever the
\* order in which downloads end.
C9_OutputOrder ==
  /\ \A k \in 1..(Len(entries) - 1) : entries[k].idx < entries[k + 1].idx
  /\ variant \in {"disk", "temp", "par"} =>
       [k \in 1..Len(failed) |-> failed[k].zip_path]
         = [k \in 1..Len(FailedUpTo(N)) |-> FailedUpTo(N)[k].zip_path]

\* a job with two registered entries and two failure records
C9_Witness == Len(entries) >= 2 /\ Len(failed) >= 2

\* C10: in the parallel streaming variant the successfully archived names and
\* the failure list are determined by the input and the per-source outcomes
\* alone, so they are the same for every value of the parallel option.
C10_ParallelIndependent ==
  variant = "par" =>
    /\ { entries[k].name : k \in {j \in 1..Len(entries) : outcome[entries[j].idx] = "ok"} }
         = { EntryName(i) : i \in {j \in Idx : outcome[j] = "ok"} }
    /\ failed = FailedUpTo(N)

\* a finalized parallel job with a limiter wider than one, an archived entry
\* and a failed one
C10_Witness ==
  /\ variant = "par"
  /\ Concurrency >= 2
  /\ archState = "finalized"
  /\ \E i \in Idx : outcome[i] = "ok"
  /\ failed # <<>>

----------------------------------------------------------------------------
\* Claims about the entry names, checked under NamesSpec

\* the sanitizer of the variant at hand
VariantSanitize(name) ==
  IF variant \in {"pass", "web"} THEN sanitizeUnderscore(name) ELSE sanitize(name)

Contains(s, ch) == \E k \in 1..Len(s) : s[k] = ch

\* C11: two distinct entries whose requested names sanitize to the same
\* (non-empty) string are registered in the archive under distinct names.
C11_DistinctEntryNames ==
  variant \in {"disk", "temp"} =>
    \A j, k \in 1..Len(entries) :
      ( /\ j # k
        /\ entries[j].kind = "real" /\ entries[k].kind = "real"
        /\ sanitize(files[entries[j].idx].zip_path) # <<>>
        /\ sanitize(files[entries[j].idx].zip_path)
             = sanitize(files[entries[k].idx].zip_path) )
      => entries[j].name # entries[k].name

\* C12: the name computed for an entry is never empty; a requested name that
\* is absent, or empty once sanitized, gives the indexed fallback name.
C12_EntryNameNeverEmpty ==
  \A k \in 1..Len(entries) :
    LET i == entries[k].idx
    IN /\ entries[k].name # <<>>
       /\ (entries[k].kind = "real" /\ VariantSanitize(files[i].zip_path) = <<>>)
            => entries[k].name = (IF variant \in {"pass", "web"} THEN DefaultFile(i)
                                  ELSE DefaultVideo(i))

\* C13: both sanitizers are idempotent on every requested name, and every
\* name registered for a real entry is a fixed point of its variant's
\* sanitizer.
C13_SanitizeIdempotent ==
  /\ \A i \in Idx :
       LET s == files[i].zip_path
       IN /\ sanitize(sanitize(s)) = sanitize(s)
          /\ sanitizeUnderscore(sanitizeUnderscore(s)) = sanitizeUnderscore(s)
  /\ \A k \in 1..Len(entries) :
       entries[k].kind = "real" => VariantSanitize(entries[k].name) = entries[k].name

\* an entry was registered under a name the sanitizer had to change, with
\* whitespace on both sides of an ordinary character
C13_Witness ==
  \E k \in 1..Len(entries) :
    /\ entries[k].kind = "real"
    /\ files[entries[k].idx].zip_path = <<" ", ".", "\t">>
    /\ entries[k].name # files[entries[k].idx].zip_path

----------------------------------------------------------------------------
\* Claims about the streaming loops

\* entries whose fetched response body has been obtained and not yet read to
\* its end.  web: the streams queued in the archive and not yet drained;
\* par: the tasks waiting for their body's 'end'; pass: a body whose pipe()
\* call threw is never read.
OpenBodies ==
  CASE variant = "web" ->
         {entries[k].idx : k \in (drained + 1)..Len(entries)}
    [] variant = "par" -> {i \in Idx : tpc[i] = "body"}
    [] variant = "pass" -> {i \in Idx : outcome[i] = NotNodeStream}
    [] OTHER -> {}

\* C20: in the streaming variants a fetch is issued only when no fetched
\* response body is still open, and at most one body is open at any time.
C20_OneEntryInFlight ==
  [][ (variant \in {"web", "pass"}) =>
        ( /\ \A i \in Idx : (AttemptBegins(i) => OpenBodies = {})
          /\ Cardinality(OpenBodies') <= 1 ) ]_vars

----------------------------------------------------------------------------
\* Claims about the limiter

\* C17: at every moment at most one entry task is between the start of its
\* download and the registration of its entry or placeholder (or its
\* failure record).
C17_SingleWriter ==
  variant \in {"temp", "par"} => Cardinality(Running) <= 1

\* the parallel variant with a limiter wider than one, the second task
\* streaming after the first one has settled
C17_Witness ==
  /\ variant = "par"
  /\ Concurrency >= 2
  /\ N >= 2
  /\ tpc[1] = "fulfilled"
  /\ tpc[2] = "body"

\* entry i's task has a terminal result: its real entry or its placeholder
\* is registered, or its failure is recorded
TerminalResult(i) ==
  \/ i \in EntryIdxs("real")
  \/ i \in EntryIdxs("placeholder")
  \/ Failing(i)

\* C18: archive.finalize() is called at most once, and only when every
\* entry task has a terminal result.
C18_FinalizeOnceAfterAll ==
  [][ (variant \in {"temp", "par"} /\ finalizeCalls' # finalizeCalls) =>
        (finalizeCalls = 0 /\ \A i \in Idx : TerminalResult(i)) ]_vars

\* fetches issued whose body is not yet fully consumed
OpenRetrievals == {i \in Idx : tpc[i] \in {"fetch", "pipe", "body"}}

\* C19: in the parallel variant the effective concurrency is the parallel
\* option clamped to 1..6, 4 when the option is absent or 0, and never more
\* than that many retrievals are open.
C19_ConcurrencyCap ==
  variant = "par" =>
    /\ Concurrency \in 1..6
    /\ optParallel \in 1..6 => Concurrency = optParallel
    /\ optParallel = 0 => Concurrency = 4
    /\ optParallel > 6 => Concurrency = 6
    /\ optParallel < 0 => Concurrency = 1
    /\ Cardinality(OpenRetrievals) <= Concurrency

\* a request asking for more than six with a retrieval open
C19_Witness ==
  /\ variant = "par"
  /\ optParallel > 6
  /\ \E i \in Idx : tpc[i] = "body"

----------------------------------------------------------------------------
\* Claims about the request and the job record, checked under ServiceSpec

\* C15: a request whose list is missing, no array or empty is answered with
\* status 400 and nothing is created for it: no archive, no staged zip, no
\* temp file, no task, no download, no job record.
C15_InvalidInputRejected ==
  ((reqFiles.kind \in {"missing", "not_array"} \/ Len(reqFiles.list) = 0)
     /\ hpc # "request") =>
    /\ hpc = "done"
    /\ res.ended /\ res.status = 400
    /\ archState = "none"
    /\ ~zipOnDisk
    /\ disk = {} /\ tempFiles = <<>>
    /\ tpc = <<>> /\ entries = <<>>
    /\ finalizeCalls = 0
    /\ jobs = "none"

\* an empty array was answered in the job variant
C15_Witness ==
  /\ variant = "job"
  /\ reqFiles.kind = "array" /\ reqFiles.list = <<>>
  /\ hpc = "done"

\* C16: the job's recorded status starts as processing, and once it is
\* completed or failed it never changes again.
C16_JobStatusAbsorbing ==
  [][ /\ (jobs = "none" /\ jobs' # jobs) => jobs' = "processing"
      /\ jobs \in {"completed", "failed"} => jobs' = jobs ]_vars

----------------------------------------------------------------------------
\* Claims about the timers

\* an attempt of entry i ends in failure in this step
AttemptFails(i) ==
  /\ tpc[i] \in {"fetch", "pipe"}
  /\ tpc'[i] \notin {"fetch", "pipe"}
  /\ outcome'[i] # "ok"

\* C21: in disk and temp the delay waited after failed attempt a, for a from 1
\* to maxRetry - 1, is 2000 * 2^(a-1) ms, and after the failure of the last
\* attempt no delay is waited.
C21_ExponentialBackoff ==
  [][ (variant \in {"disk", "temp"}) =>
        \A i \in Idx :
          AttemptFails(i) =>
            IF attempt[i] < maxRetry
            THEN tpc'[i] = "backoff" /\ timers'[i] = 2000 * 2^(attempt[i] - 1)
            ELSE tpc'[i] # "backoff" /\ timers'[i] = 0 ]_vars

\* disk waits after the second failed attempt
C21_Witness ==
  /\ variant = "disk"
  /\ \E i \in Idx : tpc[i] = "backoff" /\ attempt[i] = 2 /\ timers[i] = 4000

\* a retrieval attempt of entry i is under way: the fetch is awaited or the
\* response body is being transferred
InAttempt(i) == tpc[i] \in {"fetch", "pipe", "body"}

\* C22: in disk, temp and par every retrieval attempt has its abort timer
\* pending for as long as it runs, the transfer of the body included, so that
\* a stalled source ends in a failure; and no attempt timer is pending once
\* the attempt has returned.
C22_PerAttemptTimeout ==
  variant \in {"disk", "temp", "par"} =>
    \A i \in Idx :
      /\ InAttempt(i) => timers[i] = AttemptTimer
      /\ (~InAttempt(i) /\ tpc[i] # "backoff") => timers[i] = 0

----------------------------------------------------------------------------
\* Claims about what goes on after the job is over

\* the client aborted the job, or the job failed: the response was destroyed
\* or an error status was sent
Terminated ==
  \/ clientAborted
  \/ res.destroyed
  \/ res.ended /\ res.status = 500

\* C25: in disk and temp, once the job was aborted by the client or has
\* failed, no task registers a further entry or placeholder in the archive
\* and none adds a record to the failure list.
C25_NoWritesAfterTermination ==
  [][ (variant \in {"disk", "temp"} /\ Terminated) =>
        (entries' = entries /\ failed' = failed) ]_vars

----------------------------------------------------------------------------
\* Claims about termination, checked under LiveSpec

\* the request has passed the input check
Accepted == hpc # "request" /\ ~InvalidInput(reqFiles)

\* the archive is finalized and the response ended, or the response was ended
\* with an error or torn down (by the handler or by the client leaving); in
\* job, the job's status has left processing
TerminalOutcome ==
  IF variant = "job" THEN jobs \in {"completed", "failed"}
  ELSE \/ archState = "finalized" /\ res.ended
       \/ res.ended /\ res.status = 500
       \/ res.destroyed
       \/ res.closed

\* C23: every accepted request eventually reaches a terminal outcome.
C23_ReachesTerminalOutcome == Accepted ~> TerminalOutcome

\* C24: in disk and job the staged zip file created under /tmp is eventually
\* deleted and stays deleted.
C24_StagedZipRemoved ==
  (variant \in {"disk", "job"}) => <>[](~zipOnDisk)

====
